---- MODULE Spec2Model ----
(***************************************************************************)
(* Research planner / executor agent (Gemini Interactions API).            *)
(*                                                                         *)
(* A Python str is modelled as a sequence of one-character strings, a      *)
(* Python list as a sequence, and None as the one-element tuple None,      *)
(* which is no str because its element is not a single character.          *)
(***************************************************************************)
EXTENDS Integers, Sequences, FiniteSets, TLC

VARIABLES
    plan_id,          \* st.session_state.plan_id
    plan_text,        \* st.session_state.plan_text
    tasks,            \* st.session_state.tasks
    research_id,      \* st.session_state.research_id
    research_text,    \* st.session_state.research_text
    synthesis_text,   \* st.session_state.synthesis_text
    infographic,      \* st.session_state.infographic
    interactions,     \* the interactions the remote service has created, in order
    pc,               \* position of the running script: "idle" between runs
    job,              \* the background job wait_for_completion is waiting for
    timeout,          \* wait_for_completion: parameter timeout
    elapsed,          \* wait_for_completion: local elapsed
    queries,          \* number of client.interactions.get calls of this wait
    pollFailed,       \* a status query raised inside the poll loop
    result,           \* the Interaction wait_for_completion returned
    progress,         \* wait_for_completion: last value given to progress_bar
    notice,           \* st.error / st.warning shown by the last script run
    written,          \* the numbered items a plan text was written from
    docx_text,        \* generate_docx: parameter text
    doc               \* generate_docx: the paragraphs added to the Document

session == <<plan_id, plan_text, tasks, research_id, research_text,
             synthesis_text, infographic>>
poller  == <<job, timeout, elapsed, queries, pollFailed, result, progress>>
aside   == <<written, docx_text, doc>>
vars    == <<plan_id, plan_text, tasks, research_id, research_text,
             synthesis_text, infographic, interactions, pc, job, timeout,
             elapsed, queries, pollFailed, result, progress, notice,
             written, docx_text, doc>>

(***************************************************************************)
(* Program constants.                                                      *)
(***************************************************************************)
POLLING_INTERVAL == 3
TIMEOUT == 300

(***************************************************************************)
(* Bounds of the model.                                                    *)
(***************************************************************************)
MaxCreate == 4      \* interactions the remote service creates in one run
MaxDoneAt == 4      \* latest second at which a job that completes does so
MaxTimeout == 7    \* largest timeout passed to wait_for_completion alone

(***************************************************************************)
(* Python values.                                                          *)
(***************************************************************************)
None == <<"None">>
NoAttr == <<"NoAttr">>          \* an output item without a text attribute
NL == "\n"

\* truth value of an optional str
Truthy(v) == v # None /\ v # <<>>

RECURSIVE Join(_, _)
\* sep.join(parts)
Join(sep, parts) ==
    IF parts = <<>> THEN <<>>
    ELSE IF Len(parts) = 1 THEN parts[1]
    ELSE parts[1] \o sep \o Join(sep, Tail(parts))

HasText(o) == o # NoAttr /\ Truthy(o)

RECURSIVE Texts(_)
\* [o.text for o in outputs if hasattr(o, 'text') and o.text]
Texts(outputs) ==
    IF outputs = <<>> THEN <<>>
    ELSE IF HasText(outputs[1]) THEN <<outputs[1]>> \o Texts(Tail(outputs))
    ELSE Texts(Tail(outputs))

\* get_text(outputs): the texts of the outputs that carry one, joined by "\n"
get_text(outputs) ==
    IF Len(outputs) = 0 THEN <<>>
    ELSE Join(<<NL>>, Texts(outputs))

(***************************************************************************)
(* parse_tasks: the regular expression                                     *)
(*   ^(\d+)[\.\)\-]\s*(.+?)(?=\n\d+[\.\)\-]|\n\n|\Z)   MULTILINE | DOTALL   *)
(* matched as re.finditer does, positions counted from 1.                  *)
(***************************************************************************)
Digits == {"0", "1", "2", "3", "4", "5", "6", "7", "8", "9"}
Separators == {".", ")", "-"}
Spaces == {" ", "\n", "\t", "\r"}

IsDigit(c) == c \in Digits
IsSep(c) == c \in Separators
IsSpace(c) == c \in Spaces

\* faulty variant: a pattern that is not anchored to the start of a line
AtAnyPosition(s, p) == p >= 1

\* ^ under MULTILINE
AtLineStart(s, p) == p = 1 \/ s[p - 1] = NL

RECURSIVE DigitsEnd(_, _)
\* first position >= p that holds no digit (greedy \d+)
DigitsEnd(s, p) ==
    IF p <= Len(s) /\ IsDigit(s[p]) THEN DigitsEnd(s, p + 1) ELSE p

RECURSIVE SpaceEnd(_, _)
\* first position >= p that holds no whitespace (greedy \s*)
SpaceEnd(s, p) ==
    IF p <= Len(s) /\ IsSpace(s[p]) THEN SpaceEnd(s, p + 1) ELSE p

\* \d+[\.\)\-] matches at p
MarkerAt(s, p) ==
    LET q == DigitsEnd(s, p)
    IN  q > p /\ q <= Len(s) /\ IsSep(s[q])

\* (?=\n\d+[\.\)\-]|\n\n|\Z) holds at k
Lookahead(s, k) ==
    \/ k = Len(s) + 1
    \/ /\ k <= Len(s)
       /\ s[k] = NL
       /\ \/ MarkerAt(s, k + 1)
          \/ (k + 1 <= Len(s) /\ s[k + 1] = NL)

RECURSIVE BodyEnd(_, _)
\* last position of the lazy (.+?) that starts at b: at least one character
BodyEnd(s, e) ==
    IF Lookahead(s, e + 1) THEN e ELSE BodyEnd(s, e + 1)

\* what MatchAt yields where the pattern does not match
NoMatch == [num |-> <<>>, body |-> <<>>, end |-> 0]

\* the match of the pattern that starts at p, or NoMatch
MatchAt(s, p) ==
    IF ~(p <= Len(s) /\ AtLineStart(s, p) /\ MarkerAt(s, p)) THEN NoMatch
    ELSE LET q == DigitsEnd(s, p)
             w == SpaceEnd(s, q + 1)
             \* \s* gives back its last character when it ran to the end
             b == IF w <= Len(s) THEN w ELSE Len(s)
         IN  IF b <= q THEN NoMatch
             ELSE [num |-> SubSeq(s, p, q - 1),
                   body |-> SubSeq(s, b, BodyEnd(s, b)),
                   end |-> BodyEnd(s, b)]

RECURSIVE FindIter(_, _)
\* re.finditer from position p on
FindIter(s, p) ==
    IF p > Len(s) THEN <<>>
    ELSE LET m == MatchAt(s, p)
         IN  IF m = NoMatch THEN FindIter(s, p + 1)
             ELSE <<m>> \o FindIter(s, m.end + 1)

RECURSIVE LStrip(_)
LStrip(s) == IF s # <<>> /\ IsSpace(s[1]) THEN LStrip(Tail(s)) ELSE s

RECURSIVE RStrip(_)
RStrip(s) ==
    IF s # <<>> /\ IsSpace(s[Len(s)]) THEN RStrip(SubSeq(s, 1, Len(s) - 1)) ELSE s

\* str.strip()
Strip(s) == LStrip(RStrip(s))

\* str.replace('\n', ' ')
ReplaceNL(s) == [i \in 1..Len(s) |-> IF s[i] = NL THEN " " ELSE s[i]]

TaskOf(m) == [num |-> m.num, text |-> ReplaceNL(Strip(m.body))]

parse_tasks(text) ==
    LET ms == FindIter(text, 1)
    IN  [i \in 1..Len(ms) |-> TaskOf(ms[i])]

(***************************************************************************)
(* The remote service.                                                     *)
(***************************************************************************)
IN_PROGRESS == <<"i", "n", "_", "p", "r", "o", "g", "r", "e", "s", "s">>
COMPLETED == <<"c", "o", "m", "p", "l", "e", "t", "e", "d">>
FAILED == <<"f", "a", "i", "l", "e", "d">>
STATUS_PREFIX == <<"S", "t", "a", "t", "u", "s", ":", " ">>

Never == -1

DigitChar(k) == <<"0", "1", "2", "3", "4", "5", "6", "7", "8", "9">>[k + 1]

\* the id the service gives to the k-th interaction it creates
MkId(k) == <<"i", DigitChar(k)>>

\* outputs the planning model may answer with
PlanReplies ==
    { <<>>,
      << <<"n", "o">> >>,
      << <<"1", ".", "a">>, NoAttr, None, <<"2", ")", "b">> >> }

\* outputs a research job may carry once it left in_progress
ResearchReplies == { <<>>, << <<"r">> >> }

\* outputs the synthesis model may answer with
SynthesisReplies == { <<>>, << <<"s">> >> }

IMG_A == <<"A">>
IMG_B == <<"B">>
NoData == <<"NoData">>          \* a content part without inline_data

\* content parts the image model may answer with
ImageReplies == { <<>>, <<NoData>>, <<NoData, IMG_A, IMG_B>> }

ApiKeys == { <<>>, <<"k">> }
Goals == { <<>>, <<"g">> }

NoJob == [id |-> None, done_at |-> Never, status |-> IN_PROGRESS, outputs |-> <<>>]

\* the background jobs the service may run for interaction id: one that
\* completes or fails at second done_at, or one that never leaves in_progress
Jobs(id) ==
    { [id |-> id, done_at |-> t, status |-> COMPLETED, outputs |-> o] :
        t \in 0..MaxDoneAt, o \in ResearchReplies }
    \cup { [id |-> id, done_at |-> t, status |-> FAILED, outputs |-> <<>>] :
        t \in 0..MaxDoneAt }
    \cup { [id |-> id, done_at |-> Never, status |-> IN_PROGRESS, outputs |-> <<>>] }

NoResult == [id |-> None, status |-> None, outputs |-> <<>>]

\* client.interactions.get(interaction_id) answered at second now
Get(j, now) ==
    IF j.done_at # Never /\ now >= j.done_at
    THEN [id |-> j.id, status |-> j.status, outputs |-> j.outputs]
    ELSE [id |-> j.id, status |-> IN_PROGRESS, outputs |-> <<>>]

CanCreate == Len(interactions) < MaxCreate
NewId == MkId(Len(interactions) + 1)

\* client.interactions.create(...) succeeded: the service keeps the new
\* interaction, the one it is chained to and how many task lines it was sent
Created(kind, prev, ntasks) ==
    interactions' = Append(interactions,
        [id |-> NewId, kind |-> kind, prev |-> prev, ntasks |-> ntasks])

(***************************************************************************)
(* Session state.                                                          *)
(***************************************************************************)
\* the defaults of init_session_state
init_session_state ==
    /\ plan_id = None
    /\ plan_text = None
    /\ tasks = <<>>
    /\ research_id = None
    /\ research_text = None
    /\ synthesis_text = None
    /\ infographic = None

\* faulty variant: a reset that forgets the infographic
reset_keeps_infographic ==
    /\ plan_id' = None
    /\ plan_text' = None
    /\ tasks' = <<>>
    /\ research_id' = None
    /\ research_text' = None
    /\ synthesis_text' = None
    /\ UNCHANGED infographic

reset_session_state ==
    /\ plan_id' = None
    /\ plan_text' = None
    /\ tasks' = <<>>
    /\ research_id' = None
    /\ research_text' = None
    /\ synthesis_text' = None
    /\ infographic' = None

Init ==
    /\ init_session_state
    /\ interactions = <<>>
    /\ pc = "idle"
    /\ job = NoJob
    /\ timeout = 0
    /\ elapsed = 0
    /\ queries = 0
    /\ pollFailed = FALSE
    /\ result = NoResult
    /\ progress = 0
    /\ notice = "none"
    /\ written = <<>>
    /\ docx_text = None
    /\ doc = <<>>

\* sidebar: if st.button("Reset")
Reset ==
    /\ pc = "idle"
    /\ UNCHANGED <<progress, written, docx_text, doc>>
    /\ reset_session_state
    /\ notice' = "none"
    /\ UNCHANGED <<interactions, pc, job, timeout, elapsed, queries,
                   pollFailed, result>>

(***************************************************************************)
(* Phase 1: Plan.                                                          *)
(***************************************************************************)
\* faulty variant: a failed planning call that drops the plan the session held
PlanRaisedClearsPlan ==
    /\ notice' = "Error during planning"
    /\ plan_id' = None
    /\ plan_text' = None
    /\ tasks' = <<>>
    /\ UNCHANGED interactions

\* client.interactions.create raises in Generate Plan: st.error
PlanRaised ==
    /\ notice' = "Error during planning"
    /\ UNCHANGED <<plan_id, plan_text, tasks, interactions>>

\* if st.button("Generate Plan", disabled=not research_goal)
GeneratePlan ==
    /\ pc = "idle"
    /\ UNCHANGED <<progress, written, docx_text, doc>>
    /\ \E api_key \in ApiKeys, research_goal \in Goals :
        /\ Truthy(api_key)
        /\ Truthy(research_goal)
        /\ \/ PlanRaised
           \/ \E outputs \in PlanReplies :
              /\ CanCreate
              /\ Created("plan", None, 0)
              /\ plan_id' = NewId
              /\ plan_text' = get_text(outputs)
              /\ tasks' = parse_tasks(get_text(outputs))
              /\ notice' = "none"
    /\ UNCHANGED <<research_id, research_text, synthesis_text, infographic,
                   pc, job, timeout, elapsed, queries, pollFailed, result>>

(***************************************************************************)
(* Phase 2: Select & Research.                                             *)
(***************************************************************************)
\* f"{task['num']}. {task['text']}"
TaskLine(task) == task.num \o <<".", " ">> \o task.text

RECURSIVE SelectedFrom(_, _, _)
\* selected_tasks: the lines of the tasks whose checkbox is ticked, from i on
SelectedFrom(ts, ticked, i) ==
    IF i > Len(ts) THEN <<>>
    ELSE (IF i \in ticked THEN <<TaskLine(ts[i])>> ELSE <<>>)
         \o SelectedFrom(ts, ticked, i + 1)

\* faulty variant: a Start Deep Research button that is never disabled
ResearchNeverDisabled(selected_tasks) == FALSE

\* disabled=not selected_tasks
ResearchDisabled(selected_tasks) == Len(selected_tasks) = 0

\* faulty variant: a loop that still polls when elapsed equals timeout
LoopCondInclusive(e, t) == e <= t

\* while elapsed < timeout
LoopCond(e, t) == e < t

\* faulty variant: a counter advanced by twice the time slept
SleptTwice(e) == e + 2 * POLLING_INTERVAL

\* time.sleep(POLLING_INTERVAL); elapsed += POLLING_INTERVAL
Slept(e) == e + POLLING_INTERVAL

\* faulty variant: a loop that gives up before its first turn
GivesUp(e, t) == IF e > t THEN "poll" ELSE "final"

\* where wait_for_completion stands when it tests its loop condition
LoopOrFinal(e, t) == IF LoopCond(e, t) THEN "poll" ELSE "final"

\* wait_for_completion(client, interaction_id, timeout) is entered
EnterWait(j, t) ==
    /\ job' = j
    /\ timeout' = t
    /\ elapsed' = 0
    /\ queries' = 0
    /\ pollFailed' = FALSE
    /\ result' = NoResult
    /\ progress' = 0
    /\ pc' = LoopOrFinal(0, t)

\* if st.button("Start Deep Research", disabled=not selected_tasks)
StartResearch ==
    /\ pc = "idle"
    /\ UNCHANGED aside
    /\ Truthy(plan_text)
    /\ \E api_key \in ApiKeys, ticked \in SUBSET (1..Len(tasks)) :
        LET selected_tasks == SelectedFrom(tasks, ticked, 1)
        IN  /\ Truthy(api_key)
            /\ ~ResearchDisabled(selected_tasks)
            /\ \/ \* client.interactions.create raises
                  /\ notice' = "Error during research"
                  /\ UNCHANGED <<interactions, pc, job, timeout, elapsed,
                                 queries, pollFailed, result, progress>>
               \/ /\ CanCreate
                  /\ Created("research", plan_id, Len(selected_tasks))
                  /\ notice' = "none"
                  /\ \E j \in Jobs(NewId) : EnterWait(j, TIMEOUT)
    /\ UNCHANGED session

\* the pairs (elapsed, timeout), for timeout up to 12 or equal to TIMEOUT,
\* at which the double (elapsed / timeout) * 100 falls just short of the
\* integer it stands for: (87 / 300) * 100 is 28.999999999999996
FloatShort == { <<87, 300>>, <<171, 300>>, <<174, 300>> }

\* int((elapsed / timeout) * 100), in double arithmetic
PercentInt(e, t) ==
    (e * 100) \div t - (IF <<e, t>> \in FloatShort THEN 1 ELSE 0)

\* progress_val = min(90, int((elapsed / timeout) * 100))
ProgressVal(e, t) ==
    IF PercentInt(e, t) < 90 THEN PercentInt(e, t) ELSE 90

\* faulty variant: a status other than in_progress breaks out of the loop
PollBreaks(interaction) ==
    /\ progress' = 100
    /\ pc' = "final"
    /\ UNCHANGED <<result, elapsed, pollFailed, notice>>

\* if interaction.status != "in_progress": ... return interaction
PollReturns(interaction) ==
    /\ progress' = 100
    /\ result' = interaction
    /\ pc' = "returned"
    /\ UNCHANGED <<elapsed, pollFailed, notice>>

\* faulty variant: a failed status query is retried on the next turn
PollRaisedRetries ==
    /\ pollFailed' = TRUE
    /\ notice' = "Error checking status"
    /\ pc' = "poll"
    /\ UNCHANGED <<elapsed, result, progress>>

\* except Exception: st.error(...); break
PollRaised ==
    /\ pollFailed' = TRUE
    /\ notice' = "Error checking status"
    /\ pc' = "final"
    /\ UNCHANGED <<elapsed, result, progress>>

\* one turn of the poll loop: a status query, then progress and sleep
PollQuery ==
    /\ pc = "poll"
    /\ UNCHANGED aside
    /\ queries' = queries + 1
    /\ \/ PollRaised
       \/ LET interaction == Get(job, elapsed)
          IN  IF interaction.status # IN_PROGRESS
              THEN PollReturns(interaction)
              ELSE /\ progress' = ProgressVal(elapsed, timeout)
                   /\ elapsed' = Slept(elapsed)
                   /\ pc' = LoopOrFinal(Slept(elapsed), timeout)
                   /\ UNCHANGED <<result, pollFailed, notice>>
    /\ UNCHANGED <<session, interactions, job, timeout>>

\* return client.interactions.get(interaction_id)
FinalQuery ==
    /\ pc = "final"
    /\ UNCHANGED <<progress, written, docx_text, doc>>
    /\ queries' = queries + 1
    /\ \/ \* the query raises: the exception leaves wait_for_completion
          /\ pc' = "raised"
          /\ UNCHANGED result
       \/ /\ result' = Get(job, elapsed)
          /\ pc' = "returned"
    /\ UNCHANGED <<session, interactions, job, timeout, elapsed, pollFailed,
                   notice>>

\* faulty variant: the research text without its fallback
ResearchTextNoFallback(interaction) == get_text(interaction.outputs)

\* get_text(interaction.outputs) or f"Status: {interaction.status}"
ResearchText(interaction) ==
    IF Truthy(get_text(interaction.outputs))
    THEN get_text(interaction.outputs)
    ELSE STATUS_PREFIX \o interaction.status

\* the locals of wait_for_completion are gone once its caller has finished
LeaveWait ==
    /\ job' = NoJob
    /\ timeout' = 0
    /\ elapsed' = 0
    /\ queries' = 0
    /\ pollFailed' = FALSE
    /\ result' = NoResult
    /\ progress' = 0
    /\ pc' = "idle"

\* faulty variant: the id is stored and the text is not
ResearchDoneNoText ==
    /\ pc = "returned"
    /\ UNCHANGED aside
    /\ research_id' = result.id
    /\ LeaveWait
    /\ UNCHANGED <<plan_id, plan_text, tasks, research_text, synthesis_text,
                   infographic, interactions, notice>>

\* wait_for_completion returned: store the research, st.rerun()
ResearchDone ==
    /\ pc = "returned"
    /\ UNCHANGED aside
    /\ research_id' = result.id
    /\ research_text' = ResearchText(result)
    /\ LeaveWait
    /\ UNCHANGED <<plan_id, plan_text, tasks, synthesis_text, infographic,
                   interactions, notice>>

\* wait_for_completion raised: except Exception in Start Research
ResearchRaised ==
    /\ pc = "raised"
    /\ UNCHANGED aside
    /\ notice' = "Error during research"
    /\ LeaveWait
    /\ UNCHANGED <<session, interactions>>

(***************************************************************************)
(* Phase 3: Synthesis + Infographic.                                       *)
(***************************************************************************)
RECURSIVE FirstInline(_)
\* the data of the first content part that carries inline_data, or None
FirstInline(parts) ==
    IF parts = <<>> THEN None
    ELSE IF parts[1] # NoData THEN parts[1]
    ELSE FirstInline(Tail(parts))

\* the infographic sub-step of Generate Report
Infographic ==
    \/ \* client.models.generate_content raises: st.warning
       /\ notice' = "Infographic generation failed"
       /\ UNCHANGED infographic
    \/ \E parts \in ImageReplies :
       /\ notice' = "none"
       /\ infographic' = IF FirstInline(parts) # None THEN FirstInline(parts)
                         ELSE infographic

\* if st.session_state.research_id: if st.button("Generate Executive Report")
GenerateReport ==
    /\ pc = "idle"
    /\ UNCHANGED <<progress, written, docx_text, doc>>
    /\ Truthy(research_id)
    /\ \E api_key \in ApiKeys :
        /\ Truthy(api_key)
        /\ \/ \* client.interactions.create raises: st.error, st.stop()
              /\ notice' = "Error during synthesis"
              /\ UNCHANGED <<synthesis_text, infographic, interactions>>
           \/ \E outputs \in SynthesisReplies :
              /\ CanCreate
              /\ Created("synthesis", research_id, 0)
              /\ synthesis_text' = get_text(outputs)
              /\ Infographic
    /\ UNCHANGED <<plan_id, plan_text, tasks, research_id, research_text,
                   pc, job, timeout, elapsed, queries, pollFailed, result>>

Next ==
    \/ Reset
    \/ GeneratePlan
    \/ StartResearch
    \/ PollQuery
    \/ FinalQuery
    \/ ResearchDone
    \/ ResearchRaised
    \/ GenerateReport

Spec == Init /\ [][Next]_vars

(***************************************************************************)
(* wait_for_completion on its own: any timeout, any job.                   *)
(***************************************************************************)
InitPoll ==
    /\ init_session_state
    /\ interactions = <<>>
    /\ notice = "none"
    /\ progress = 0
    /\ written = <<>>
    /\ docx_text = None
    /\ doc = <<>>
    /\ \E t \in 0..MaxTimeout, j \in Jobs(MkId(1)) :
        /\ job = j
        /\ timeout = t
        /\ elapsed = 0
        /\ queries = 0
        /\ pollFailed = FALSE
        /\ result = NoResult
        /\ pc = LoopOrFinal(0, t)

NextPoll == PollQuery \/ FinalQuery

SpecPoll == InitPoll /\ [][NextPoll]_vars

\* the function keeps running until it returns or raises
FairSpecPoll == SpecPoll /\ WF_vars(PollQuery) /\ WF_vars(FinalQuery)

(***************************************************************************)
(* parse_tasks on its own: st.session_state.tasks = parse_tasks(plan_text) *)
(* for any short text and for plans written out as numbered items.         *)
(***************************************************************************)
MaxTextLen == 4
MaxItems == 2

Alphabet == {"1", "2", ".", "-", " ", NL, "a"}

\* every str over Alphabet of at most MaxTextLen characters
ShortTexts == UNION { [1..n -> Alphabet] : n \in 0..MaxTextLen }

\* "1. Find data - details\n2) Check sources\n\n3 - Summarize"
PlanExample ==
    <<"1", ".", " ", "F", "i", "n", "d", " ", "d", "a", "t", "a", " ",
      "-", " ", "d", "e", "t", "a", "i", "l", "s", NL, "2", ")", " ",
      "C", "h", "e", "c", "k", " ", "s", "o", "u", "r", "c", "e",
      "s", NL, NL, "3", " ", "-", " ", "S", "u", "m", "m", "a", "r",
      "i", "z", "e">>

\* "no numbers here"
NoNumbersExample ==
    <<"n", "o", " ", "n", "u", "m", "b", "e", "r", "s", " ", "h", "e",
      "r", "e">>

\* "1.\n2. foo"
EmptyItemExample == <<"1", ".", NL, "2", ".", " ", "f", "o", "o">>

ExampleTexts == { PlanExample, NoNumbersExample, EmptyItemExample }

ItemNums == { <<"1">>, <<"1", "2">> }
ItemGaps == { <<>>, <<" ">> }
ItemBodies == { <<"a">>, <<"a", " ", "-", " ", "b">>, <<"a", NL, "b">> }

\* a numbered item of a plan: <integer><separator>, optional space, body
Items == [num : ItemNums, sep : Separators, gap : ItemGaps, body : ItemBodies]

ItemLists == UNION { [1..n -> Items] : n \in 1..MaxItems }

ItemText(it) == it.num \o <<it.sep>> \o it.gap \o it.body

\* the plan text that lists the items one after the other
PlanTextOf(items) ==
    Join(<<NL>>, [i \in 1..Len(items) |-> ItemText(items[i])])

\* the texts the planning model may answer with, and the items they list
PlanSources ==
    { [text |-> t, items |-> <<>>] : t \in ShortTexts \cup ExampleTexts }
    \cup { [text |-> PlanTextOf(l), items |-> l] : l \in ItemLists }

InitParse ==
    /\ plan_id = MkId(1)
    /\ \E src \in PlanSources :
        /\ plan_text = src.text
        /\ written = src.items
    /\ tasks = <<>>
    /\ research_id = None
    /\ research_text = None
    /\ synthesis_text = None
    /\ infographic = None
    /\ interactions = <<>>
    /\ pc = "parse"
    /\ job = NoJob
    /\ timeout = 0
    /\ elapsed = 0
    /\ queries = 0
    /\ pollFailed = FALSE
    /\ result = NoResult
    /\ progress = 0
    /\ notice = "none"
    /\ docx_text = None
    /\ doc = <<>>

\* st.session_state.tasks = parse_tasks(plan_text)
ParsePlan ==
    /\ pc = "parse"
    /\ tasks' = parse_tasks(plan_text)
    /\ pc' = "parsed"
    /\ UNCHANGED <<plan_id, plan_text, research_id, research_text,
                   synthesis_text, infographic, interactions, poller, notice,
                   aside>>

NextParse == ParsePlan

SpecParse == InitParse /\ [][NextParse]_vars

(***************************************************************************)
(* generate_docx (utils.py): the paragraphs and runs added to the Document *)
(* for a markdown text.  A paragraph is its style and its runs, a run its  *)
(* text and whether it is bold.                                            *)
(***************************************************************************)
MaxDocxLen == 4

RECURSIVE SplitLines(_)
\* text.split('\n')
SplitLines(s) ==
    IF \A i \in 1..Len(s) : s[i] # NL THEN <<s>>
    ELSE LET i == CHOOSE i \in 1..Len(s) :
                    s[i] = NL /\ \A k \in 1..(i - 1) : s[k] # NL
         IN  <<SubSeq(s, 1, i - 1)>> \o SplitLines(SubSeq(s, i + 1, Len(s)))

\* str.startswith
StartsWith(s, pre) == Len(s) >= Len(pre) /\ SubSeq(s, 1, Len(pre)) = pre

\* str.endswith
EndsWith(s, suf) ==
    Len(s) >= Len(suf) /\ SubSeq(s, Len(s) - Len(suf) + 1, Len(s)) = suf

STARS == <<"*", "*">>

StarsAt(s, p) == p + 1 <= Len(s) /\ s[p] = "*" /\ s[p + 1] = "*"

\* \*\*.*?\*\* matches at p: ** at p and a closing ** further on
BoldAt(s, p) == StarsAt(s, p) /\ \E q \in (p + 2)..Len(s) : StarsAt(s, q)

\* where the nearest closing ** of the span opened at p starts (lazy .*?)
BoldClose(s, p) ==
    CHOOSE q \in (p + 2)..Len(s) :
        StarsAt(s, q) /\ \A k \in (p + 2)..(q - 1) : ~StarsAt(s, k)

RECURSIVE SplitBold(_)
\* re.split(r'(\*\*.*?\*\*)', line): the text before each span, the span
\* itself, and at last the rest of the line
SplitBold(s) ==
    IF \A p \in 1..Len(s) : ~BoldAt(s, p) THEN <<s>>
    ELSE LET p == CHOOSE p \in 1..Len(s) :
                    BoldAt(s, p) /\ \A k \in 1..(p - 1) : ~BoldAt(s, k)
             q == BoldClose(s, p)
         IN  <<SubSeq(s, 1, p - 1), SubSeq(s, p, q + 1)>>
                 \o SplitBold(SubSeq(s, q + 2, Len(s)))

\* p.add_run(part[2:-2]) with run.bold = True, or p.add_run(part)
RunOf(part) ==
    IF StartsWith(part, STARS) /\ EndsWith(part, STARS)
    THEN [text |-> SubSeq(part, 3, Len(part) - 2), bold |-> TRUE]
    ELSE [text |-> part, bold |-> FALSE]

\* doc.add_paragraph(text, style): a run is added only for a text
Paragraph(style, text) ==
    [style |-> style,
     runs |-> IF text = <<>> THEN <<>>
              ELSE <<[text |-> text, bold |-> FALSE]>>]

\* what one non-blank line adds to the document
ParagraphOf(line) ==
    IF StartsWith(line, <<"#", " ">>)
    THEN Paragraph("Heading 1", Strip(SubSeq(line, 3, Len(line))))
    ELSE IF StartsWith(line, <<"#", "#", " ">>)
    THEN Paragraph("Heading 2", Strip(SubSeq(line, 4, Len(line))))
    ELSE IF StartsWith(line, <<"#", "#", "#", " ">>)
    THEN Paragraph("Heading 3", Strip(SubSeq(line, 5, Len(line))))
    ELSE IF StartsWith(line, <<"*", " ">>) \/ StartsWith(line, <<"-", " ">>)
    THEN Paragraph("List Bullet", Strip(SubSeq(line, 3, Len(line))))
    ELSE [style |-> "Normal",
          runs |-> [i \in 1..Len(SplitBold(line)) |->
                        RunOf(SplitBold(line)[i])]]

RECURSIVE Paragraphs(_)
\* for line in lines: blank lines are skipped
Paragraphs(lines) ==
    IF lines = <<>> THEN <<>>
    ELSE IF Strip(lines[1]) = <<>> THEN Paragraphs(Tail(lines))
    ELSE <<ParagraphOf(lines[1])>> \o Paragraphs(Tail(lines))

\* 'Research Report'
REPORT_TITLE == <<"R", "e", "s", "e", "a", "r", "c", "h", " ", "R", "e", "p", "o", "r", "t">>

\* generate_docx(text): the title heading, then the lines of text
generate_docx(text) ==
    <<Paragraph("Title", REPORT_TITLE)>> \o Paragraphs(SplitLines(text))

DocxAlphabet == {"*", "b", " ", "#", "-", NL}

\* "**bold** and plain"
BoldExample ==
    <<"*", "*", "b", "o", "l", "d", "*", "*", " ", "a", "n", "d", " ", "p", "l", "a", "i", "n">>

DocxTexts ==
    UNION { [1..n -> DocxAlphabet] : n \in 0..MaxDocxLen } \cup { BoldExample }

InitDocx ==
    /\ init_session_state
    /\ interactions = <<>>
    /\ pc = "docx"
    /\ job = NoJob
    /\ timeout = 0
    /\ elapsed = 0
    /\ queries = 0
    /\ pollFailed = FALSE
    /\ result = NoResult
    /\ progress = 0
    /\ notice = "none"
    /\ written = <<>>
    /\ docx_text \in DocxTexts
    /\ doc = <<>>

\* generate_docx(text) is called and saves the document
GenerateDocx ==
    /\ pc = "docx"
    /\ doc' = generate_docx(docx_text)
    /\ pc' = "saved"
    /\ UNCHANGED <<session, interactions, poller, notice, written, docx_text>>

NextDocx == GenerateDocx

SpecDocx == InitDocx /\ [][NextDocx]_vars

(***************************************************************************)
(* Vocabulary of the properties.                                           *)
(***************************************************************************)
\* the phase of the session, read off the fields that gate the three phases
Phase ==
    IF synthesis_text # None THEN "SYNTHESIZED"
    ELSE IF research_id # None THEN "RESEARCHED"
    ELSE IF plan_id # None THEN "PLANNED"
    ELSE "EMPTY"

\* ceil(a / b)
Ceil(a, b) == (a + b - 1) \div b

\* the record the service keeps of interaction id
HasRecord(id, kind) ==
    \E k \in 1..Len(interactions) :
        interactions[k].id = id /\ interactions[k].kind = kind

\* a script run that starts from rest
Run == pc = "idle"

\* "Status: in_progress"
STATUS_IN_PROGRESS ==
    <<"S", "t", "a", "t", "u", "s", ":", " ",
      "i", "n", "_", "p", "r", "o", "g", "r", "e", "s", "s">>

(***************************************************************************)
(* C1. research_id is set only if plan_id is set and the research          *)
(* interaction was requested with at least one selected task;              *)
(* synthesis_text is set only if research_id is set.                       *)
(***************************************************************************)
C1_PhaseOrder ==
    /\ research_id # None =>
        /\ plan_id # None
        /\ \E k \in 1..Len(interactions) :
            /\ interactions[k].id = research_id
            /\ interactions[k].kind = "research"
            /\ interactions[k].ntasks >= 1
    /\ synthesis_text # None => research_id # None

C1_Witness ==
    /\ research_id # None
    /\ synthesis_text # None
    /\ \E k \in 1..Len(interactions) :
        interactions[k].id = research_id /\ interactions[k].ntasks = 1

(***************************************************************************)
(* C2. A script run in which the create call of Generate Plan, or of the   *)
(* synthesis step of Generate Report, fails leaves every session field as  *)
(* it was, and the phase with them.                                        *)
(***************************************************************************)
C2_FailedAttemptKeepsState ==
    [][(Run /\ notice' \in {"Error during planning", "Error during synthesis"})
        => (session' = session /\ Phase' = Phase)]_vars

C2_Witness ==
    /\ notice = "Error during planning"
    /\ Truthy(plan_text)
    /\ research_id # None

(***************************************************************************)
(* C3. Reset, from any reachable state, leaves the session as              *)
(* init_session_state makes a fresh one.                                   *)
(***************************************************************************)
C3_ResetClearsAll ==
    [][Reset => init_session_state']_vars

\* a cleared session of which the service holds a plan, a research and a
\* synthesis interaction: only Reset leads there
C3_Witness ==
    /\ init_session_state
    /\ \E k \in 1..Len(interactions) : interactions[k].kind = "synthesis"

(***************************************************************************)
(* C4. Once a status query of the poll loop answers with a status other    *)
(* than in_progress, that Interaction is returned, and no status query     *)
(* follows it.                                                             *)
(***************************************************************************)
C4_ReturnsAtFirstTerminal ==
    [][/\ (pc = "poll" /\ ~pollFailed' /\ Get(job, elapsed).status # IN_PROGRESS)
          => (pc' = "returned" /\ result' = Get(job, elapsed))
       /\ pc = "returned" => queries' # queries + 1]_vars

C4_Witness ==
    /\ pc = "returned"
    /\ ~pollFailed
    /\ elapsed > 0
    /\ LoopCond(elapsed, timeout)
    /\ result.status = COMPLETED
    /\ queries = 2

(***************************************************************************)
(* C5. When the job leaves in_progress at second t, before the timeout,    *)
(* and no query fails, wait_for_completion has issued exactly              *)
(* ceil(t / poll_interval) status queries when it returns.                 *)
(***************************************************************************)
C5_Returned ==
    /\ pc = "returned"
    /\ ~pollFailed
    /\ job.done_at # Never
    /\ job.done_at < timeout

C5_QueryCountAsClaimed ==
    C5_Returned => queries = Ceil(job.done_at, POLLING_INTERVAL)

\* as amended: one query more, the first one being issued at second 0
C5_QueryCount ==
    C5_Returned => queries = Ceil(job.done_at, POLLING_INTERVAL) + 1

C5_Witness ==
    /\ C5_Returned
    /\ job.done_at = 4
    /\ queries = 3

(***************************************************************************)
(* C6. A status query that fails in the poll loop ends the polling, and    *)
(* exactly one more query is issued; if it succeeds its Interaction is     *)
(* returned, and if it fails wait_for_completion raises.                   *)
(***************************************************************************)
C6_OneFinalQueryAfterFailure ==
    pollFailed =>
        \* the loop has made one query per interval waited, and the failed one
        /\ pc = "final" => queries = elapsed \div POLLING_INTERVAL + 1
        /\ pc = "returned" =>
            /\ queries = elapsed \div POLLING_INTERVAL + 2
            /\ result = Get(job, elapsed)
        /\ pc = "raised" =>
            /\ queries = elapsed \div POLLING_INTERVAL + 2
            /\ result = NoResult
        /\ pc \in {"final", "returned", "raised"}

C6_Witness ==
    /\ pollFailed
    /\ pc = "returned"
    /\ elapsed = 3
    /\ queries = 3
    /\ result.status = COMPLETED

(***************************************************************************)
(* C7. With a job that never leaves in_progress and no failing query,      *)
(* wait_for_completion terminates: it stops polling as soon as elapsed     *)
(* reaches timeout, has then waited at most timeout + poll_interval, and   *)
(* returns an Interaction whose status is in_progress.                     *)
(***************************************************************************)
C7_Bounded ==
    (job.done_at = Never /\ ~pollFailed) =>
        /\ elapsed <= timeout + POLLING_INTERVAL
        /\ pc = "poll" => elapsed < timeout
        /\ pc \in {"final", "returned", "raised"} =>
            /\ elapsed >= timeout
            /\ elapsed - POLLING_INTERVAL < timeout
        /\ pc = "returned" => result.status = IN_PROGRESS

C7_TimeoutTerminates ==
    /\ []C7_Bounded
    /\ <>(pc \in {"returned", "raised"})

C7_Witness ==
    /\ pc = "returned"
    /\ job.done_at = Never
    /\ ~pollFailed
    /\ timeout = 7
    /\ elapsed = 9
    /\ result.status = IN_PROGRESS

(***************************************************************************)
(* C8. When the timeout elapses with the job still in_progress, the final  *)
(* status query's Interaction is returned without an error, and Start      *)
(* Research stores its id and the text "Status: in_progress": the session  *)
(* holds research and, no report being held from before, is RESEARCHED.    *)
(***************************************************************************)
C8_TimedOut ==
    /\ ~pollFailed
    /\ ~LoopCond(elapsed, timeout)
    /\ Get(job, elapsed).status = IN_PROGRESS

C9_FailedInfographicLeavesTextOnly ==
    (pc = "idle" /\ notice = "Infographic generation failed") =>
        /\ Phase = "SYNTHESIZED"
        /\ infographic = None

(***************************************************************************)
(* C10. Generate Plan is performed only when the session is EMPTY; stated  *)
(* here in the claim's own particular: it never runs while research_id or  *)
(* synthesis_text is set.                                                  *)
(***************************************************************************)
\* a script run in which Generate Plan stored a new plan
C10_PlanPerformed == Run /\ plan_id' \notin {plan_id, None}

C10_PlanNeverAfterResearch ==
    [][C10_PlanPerformed => (research_id = None /\ synthesis_text = None)]_vars

(***************************************************************************)
(* C11: parse_tasks returns one task per numbered item, in source order,   *)
(* with the ordinal and the body as written (lines joined, trimmed), for   *)
(* the separators '.', ')' and '-'; the text                               *)
(* "1. Find data - details\n2) Check sources\n\n3 - Summarize" yields      *)
(* three tasks: 1 "Find data - details", 2 "Check sources", 3 "Summarize". *)
(***************************************************************************)
Parsed == pc = "parsed"

\* a body on one line: its line breaks read as spaces
OneLine(b) == [k \in 1..Len(b) |-> IF b[k] = NL THEN " " ELSE b[k]]

\* the tasks the written items stand for
TasksWritten ==
    [i \in 1..Len(written) |->
        [num |-> written[i].num, text |-> OneLine(written[i].body)]]

C11_ItemsAsWritten == (Parsed /\ written # <<>>) => tasks = TasksWritten

C11_ExampleTasks ==
    << [num |-> <<"1">>,
          text |-> <<"F", "i", "n", "d", " ", "d", "a", "t", "a", " ", "-", " ", "d", "e", "t", "a", "i", "l", "s">>],
       [num |-> <<"2">>,
          text |-> <<"C", "h", "e", "c", "k", " ", "s", "o", "u", "r", "c", "e", "s">>],
       [num |-> <<"3">>,
          text |-> <<"S", "u", "m", "m", "a", "r", "i", "z", "e">>] >>

C11_ExampleYieldsThree ==
    /\ C11_ItemsAsWritten
    /\ (Parsed /\ plan_text = PlanExample) => tasks = C11_ExampleTasks

(***************************************************************************)
(* C12: generate_docx on "**bold** and plain" adds for that line one       *)
(* paragraph with exactly two runs: "bold", bold, and " and plain", not    *)
(* bold.                                                                   *)
(***************************************************************************)
Saved == pc = "saved"

C12_TwoRuns ==
    (Saved /\ docx_text = BoldExample) =>
        /\ Len(doc) = 2
        /\ doc[2].runs =
            << [text |-> <<"b", "o", "l", "d">>, bold |-> TRUE],
               [text |-> <<" ", "a", "n", "d", " ", "p", "l", "a", "i", "n">>,
                bold |-> FALSE] >>

(***************************************************************************)
(* C13: parse_tasks returns the empty list for every text in which no line *)
(* starts with digits immediately followed by '.', ')' or '-'; so it does  *)
(* for "" and for "no numbers here".                                       *)
(***************************************************************************)
\* some line of s starts with digits immediately followed by a separator
NumberedLine(s) ==
    \E p \in 1..Len(s), q \in 1..Len(s) :
        /\ p < q
        /\ (p = 1 \/ s[p - 1] = NL)
        /\ \A k \in p..(q - 1) : s[k] \in Digits
        /\ s[q] \in Separators

C13_NoMarkerNoTasks ==
    /\ (Parsed /\ ~NumberedLine(plan_text)) => tasks = <<>>
    /\ (Parsed /\ plan_text \in {<<>>, NoNumbersExample}) => tasks = <<>>

C13_Witness ==
    /\ Parsed
    /\ plan_text = NoNumbersExample
    /\ ~NumberedLine(plan_text)
    /\ tasks = <<>>

(***************************************************************************)
(* C14: in every reachable state where research_id is set, the research    *)
(* interaction it names was created with previous_interaction_id equal to  *)
(* the plan_id the session holds now, also after a later Generate Plan.    *)
(***************************************************************************)
\* the interaction the service keeps under id
RecordOf(id) ==
    interactions[CHOOSE i \in 1..Len(interactions) : interactions[i].id = id]

C14_ResearchChainedToCurrentPlan ==
    research_id # None =>
        /\ RecordOf(research_id).kind = "research"
        /\ RecordOf(research_id).prev = plan_id

(***************************************************************************)
(* C15: whenever synthesis_text is set, it was produced by an interaction  *)
(* chained to the research_id the session holds now; a later Start         *)
(* Research never leaves the synthesis_text of an earlier research.        *)
(***************************************************************************)
\* the interaction of that kind the service created last
LastOf(kind) ==
    interactions[CHOOSE i \in 1..Len(interactions) :
        /\ interactions[i].kind = kind
        /\ \A k \in (i + 1)..Len(interactions) : interactions[k].kind # kind]

C15_SynthesisOfCurrentResearch ==
    Truthy(synthesis_text) => LastOf("synthesis").prev = research_id

(***************************************************************************)
(* C16: while wait_for_completion waits, every progress value it emits is  *)
(* min(90, floor(elapsed * 100 / timeout)), is at most 90 and never lower  *)
(* than the one before; 100 is emitted only by the query inside the loop   *)
(* that finds the job no longer in_progress.                               *)
(***************************************************************************)
\* min(90, floor(elapsed * 100 / timeout))
ProgressClaimed(e, t) ==
    IF (e * 100) \div t < 90 THEN (e * 100) \div t ELSE 90

\* a turn of the loop that found the job in_progress and slept
C16_Waited == pc = "poll" /\ elapsed' # elapsed

C16_ProgressAsClaimed ==
    [][ /\ C16_Waited =>
            /\ progress' = ProgressClaimed(elapsed, timeout)
            /\ progress' <= 90
            /\ progress' >= progress
        /\ progress' = 100 =>
            /\ pc = "poll"
            /\ pc' = "returned"
            /\ result'.status # IN_PROGRESS ]_vars

(***************************************************************************)
(* C17: wait_for_completion returns an Interaction that is in_progress     *)
(* only if elapsed reached the timeout or a status query failed during     *)
(* polling.                                                                *)
(***************************************************************************)
C17_ReturnedInProgress == pc = "returned" /\ result.status = IN_PROGRESS

C17_InProgressOnlyAfterTimeoutOrFailure ==
    C17_ReturnedInProgress => (elapsed >= timeout \/ pollFailed)

\* a failed status query ends the wait before the timeout
C17_Witness ==
    /\ C17_ReturnedInProgress
    /\ pollFailed
    /\ elapsed < timeout
    /\ elapsed > 0

(***************************************************************************)
(* C18: a numbered item whose body is empty after trimming is returned as  *)
(* a task of its own with an empty description and does not take in the    *)
(* item after it: "1.\n2. foo" yields task 1 with an empty description and *)
(* task 2 "foo".                                                           *)
(***************************************************************************)
C18_EmptyItemKept ==
    (Parsed /\ plan_text = EmptyItemExample) =>
        tasks = << [num |-> <<"1">>, text |-> <<>>],
                   [num |-> <<"2">>, text |-> <<"f", "o", "o">>] >>

(***************************************************************************)
(* C19: research_id is set exactly when research_text is a non-empty       *)
(* string, so the research results and the Generate Executive Report       *)
(* button appear and disappear together.                                   *)
(***************************************************************************)
C19_IdIffText == (research_id # None) <=> Truthy(research_text)

\* a research that completed without any text is stored with both set
C19_Witness ==
    /\ Run
    /\ research_id # None
    /\ research_text = STATUS_PREFIX \o COMPLETED

====
